---- MODULE Spec2Model ----
(***************************************************************************)
(* Topic tree of the broker (src/rmqtt/src/broker/topic.rs): a trie of     *)
(* topic filters with insertion-ordered value sets, insert/remove with     *)
(* pruning, and the lazy matching traversal MatchedIter.                   *)
(***************************************************************************)
EXTENDS Integers, Sequences, FiniteSets, TLC

(***************************************************************************)
(* Bounds of the exploration.                                              *)
(***************************************************************************)
\* longest filter / topic (number of levels) of the exhaustive workload
MaxLen == 2
\* values (NodeId) are 1..NumValues in the exhaustive workload
NumValues == 2
\* largest values_size() the exhaustive workload builds
MaxSize == 2

(***************************************************************************)
(* Levels (ntex_mqtt::TopicLevel) and topics (ordered sequences of levels). *)
(***************************************************************************)
Blank == [kind |-> "Blank", name |-> ""]
SingleWildcard == [kind |-> "SingleWildcard", name |-> "+"]
MultiWildcard == [kind |-> "MultiWildcard", name |-> "#"]
Normal(s) == [kind |-> "Normal", name |-> s]
Metadata(s) == [kind |-> "Metadata", name |-> s]

is_metadata(l) == l.kind = "Metadata"

\* Option<T>: None is the empty sequence, Some(x) the one-element sequence
None == <<>>
Some(x) == <<x>>
is_some(o) == o # None
unwrap(o) == o[1]

Range(s) == {s[i] : i \in 1..Len(s)}

Reverse(s) == [i \in 1..Len(s) |-> s[Len(s) + 1 - i]]

(***************************************************************************)
(* HashSet<V> = LinkedHashMap<V, ()>: a sequence without repetitions, in   *)
(* iteration order (oldest first).                                         *)
(***************************************************************************)
RECURSIVE SeqWithout(_, _)
SeqWithout(s, v) ==
    IF s = <<>> THEN <<>>
    ELSE IF Head(s) = v THEN SeqWithout(Tail(s), v)
    ELSE <<Head(s)>> \o SeqWithout(Tail(s), v)

\* an insert that keeps a second entry for a key that is present
LinkedInsert_duplicating(s, v) ==
    [map |-> Append(s, v), old |-> IF v \in Range(s) THEN Some(v) ELSE None]

\* LinkedHashMap::insert(k, ()): Some(old) when the key is present (the entry
\* is detached and re-attached as the most recent one), None when it is new
LinkedInsert(s, v) ==
    IF v \in Range(s)
    THEN [map |-> Append(SeqWithout(s, v), v), old |-> Some(v)]
    ELSE [map |-> Append(s, v), old |-> None]

\* LinkedHashMap::remove(k)
LinkedRemove(s, v) ==
    IF v \in Range(s)
    THEN [map |-> SeqWithout(s, v), old |-> Some(v)]
    ELSE [map |-> s, old |-> None]

(***************************************************************************)
(* Node<V>: values and the level-keyed map of children.                    *)
(***************************************************************************)
EmptyMap == [l \in {} |-> 0]

Default == [values |-> <<>>, branches |-> EmptyMap]

contains_key(m, k) == k \in DOMAIN m

\* HashMap::insert / the write-back of entry(k).or_default()
MapPut(m, k, n) == [l \in (DOMAIN m) \cup {k} |-> IF l = k THEN n ELSE m[l]]

\* HashMap::remove
MapRemove(m, k) == [l \in (DOMAIN m) \ {k} |-> m[l]]

\* _insert that reports is_some() where the code reports is_none()
RECURSIVE _insert_negated(_, _, _)
_insert_negated(self, path, value) ==
    IF path # <<>>
    THEN LET first == path[Len(path)]
             rest == SubSeq(path, 1, Len(path) - 1)
             child == IF contains_key(self.branches, first)
                      THEN self.branches[first] ELSE Default
             r == _insert_negated(child, rest, value)
         IN  [node |-> [self EXCEPT !.branches = MapPut(self.branches, first, r.node)],
              res |-> r.res]
    ELSE LET r == LinkedInsert(self.values, value)
         IN  [node |-> [self EXCEPT !.values = r.map], res |-> is_some(r.old)]

\* _insert that makes a new node of the child on the way, dropping what the
\* child held
RECURSIVE _insert_fresh_child(_, _, _)
_insert_fresh_child(self, path, value) ==
    IF path # <<>>
    THEN LET first == path[Len(path)]
             rest == SubSeq(path, 1, Len(path) - 1)
             r == _insert_fresh_child(Default, rest, value)
         IN  [node |-> [self EXCEPT !.branches = MapPut(self.branches, first, r.node)],
              res |-> r.res]
    ELSE LET r == LinkedInsert(self.values, value)
         IN  [node |-> [self EXCEPT !.values = r.map], res |-> ~is_some(r.old)]

RECURSIVE _insert(_, _, _)
_insert(self, path, value) ==
    IF path # <<>>
    THEN LET first == path[Len(path)]
             rest == SubSeq(path, 1, Len(path) - 1)
             child == IF contains_key(self.branches, first)
                      THEN self.branches[first] ELSE Default
             r == _insert(child, rest, value)
         IN  [node |-> [self EXCEPT !.branches = MapPut(self.branches, first, r.node)],
              res |-> r.res]
    ELSE LET r == LinkedInsert(self.values, value)
         IN  [node |-> [self EXCEPT !.values = r.map], res |-> ~is_some(r.old)]

insert(self, topic_filter, value) == _insert(self, Reverse(topic_filter), value)

\* _remove that prunes a child as soon as it has no values
RECURSIVE _remove_prune_valueless(_, _, _)
_remove_prune_valueless(self, path, value) ==
    IF path = <<>>
    THEN LET r == LinkedRemove(self.values, value)
         IN  [node |-> [self EXCEPT !.values = r.map], res |-> is_some(r.old)]
    ELSE LET t == path[1]
         IN  IF contains_key(self.branches, t)
             THEN LET r == _remove_prune_valueless(self.branches[t], Tail(path), value)
                      x == r.node
                  IN  [node |-> [self EXCEPT !.branches =
                                    IF x.values = <<>>
                                    THEN MapRemove(self.branches, t)
                                    ELSE MapPut(self.branches, t, x)],
                       res |-> r.res]
             ELSE [node |-> self, res |-> FALSE]

\* _remove that never prunes
RECURSIVE _remove_keep(_, _, _)
_remove_keep(self, path, value) ==
    IF path = <<>>
    THEN LET r == LinkedRemove(self.values, value)
         IN  [node |-> [self EXCEPT !.values = r.map], res |-> is_some(r.old)]
    ELSE LET t == path[1]
         IN  IF contains_key(self.branches, t)
             THEN LET r == _remove_keep(self.branches[t], Tail(path), value)
                  IN  [node |-> [self EXCEPT !.branches = MapPut(self.branches, t, r.node)],
                       res |-> r.res]
             ELSE [node |-> self, res |-> FALSE]

\* _remove that prunes the node of the filter and none of the nodes above it
RECURSIVE _remove_prune_last(_, _, _)
_remove_prune_last(self, path, value) ==
    IF path = <<>>
    THEN LET r == LinkedRemove(self.values, value)
         IN  [node |-> [self EXCEPT !.values = r.map], res |-> is_some(r.old)]
    ELSE LET t == path[1]
         IN  IF contains_key(self.branches, t)
             THEN LET r == _remove_prune_last(self.branches[t], Tail(path), value)
                      x == r.node
                  IN  [node |-> [self EXCEPT !.branches =
                                    IF Tail(path) = <<>> /\ x.values = <<>>
                                       /\ DOMAIN x.branches = {}
                                    THEN MapRemove(self.branches, t)
                                    ELSE MapPut(self.branches, t, x)],
                       res |-> r.res]
             ELSE [node |-> self, res |-> FALSE]

RECURSIVE _remove(_, _, _)
_remove(self, path, value) ==
    IF path = <<>>
    THEN LET r == LinkedRemove(self.values, value)
         IN  [node |-> [self EXCEPT !.values = r.map], res |-> is_some(r.old)]
    ELSE LET t == path[1]
         IN  IF contains_key(self.branches, t)
             THEN LET r == _remove(self.branches[t], Tail(path), value)
                      x == r.node
                  IN  [node |-> [self EXCEPT !.branches =
                                    IF x.values = <<>> /\ DOMAIN x.branches = {}
                                    THEN MapRemove(self.branches, t)
                                    ELSE MapPut(self.branches, t, x)],
                       res |-> r.res]
             ELSE [node |-> self, res |-> FALSE]

remove(self, topic_filter, value) == _remove(self, topic_filter, value)

RECURSIVE Sum(_, _)
Sum(f, S) == IF S = {} THEN 0
             ELSE LET x == CHOOSE y \in S : TRUE IN f[x] + Sum(f, S \ {x})

\* values_size that leaves the branches out
values_size_own(self) == Len(self.values)

RECURSIVE values_size(_)
values_size(self) ==
    LET len == Sum([l \in DOMAIN self.branches |-> values_size(self.branches[l])],
                   DOMAIN self.branches)
    IN  Len(self.values) + len

RECURSIVE nodes_size(_)
nodes_size(self) ==
    LET len == Sum([l \in DOMAIN self.branches |-> nodes_size(self.branches[l])],
                   DOMAIN self.branches)
    IN  Cardinality(DOMAIN self.branches) + len

values(self) == self.values

children(self) == self.branches

child(self, l) == IF contains_key(self.branches, l) THEN Some(self.branches[l]) ELSE None

(***************************************************************************)
(* The workloads.  The exhaustive one registers every filter of at most    *)
(* MaxLen levels over Levels; the test one registers the subscriptions of  *)
(* tests::topic.                                                           *)
(***************************************************************************)
NormalA == Normal("a")
Sys == Metadata("$SYS")

Levels == {Blank, NormalA, Sys, SingleWildcard, MultiWildcard}
TopicLevels == {Blank, NormalA, Sys}

SeqsUpTo(S, n) == UNION {[1..k -> S] : k \in 0..n}

\* a MultiWildcard, if any, is the last level of a filter
ValidFilter(f) == \A i \in 1..Len(f) : f[i] = MultiWildcard => i = Len(f)

Filters == {f \in SeqsUpTo(Levels, MaxLen) : ValidFilter(f)}
Topics == SeqsUpTo(TopicLevels, MaxLen)
Values == 1..NumValues
SmallPairs == Filters \X Values

\* Topic::from_str of the strings of tests::topic
T_iot_b_x == <<Blank, Normal("iot"), Normal("b"), Normal("x")>>
T_iot_b_y == <<Blank, Normal("iot"), Normal("b"), Normal("y")>>
T_iot_cc_dd == <<Blank, Normal("iot"), Normal("cc"), Normal("dd")>>
T_ddl_22_mw == <<Blank, Normal("ddl"), Normal("22"), MultiWildcard>>
T_ddl_sw_sw == <<Blank, Normal("ddl"), SingleWildcard, SingleWildcard>>
T_ddl_sw_1 == <<Blank, Normal("ddl"), SingleWildcard, Normal("1")>>
T_ddl_mw == <<Blank, Normal("ddl"), MultiWildcard>>
T_xyz_yy_zz == <<Blank, Normal("xyz"), Normal("yy"), Normal("zz")>>
T_xyz == <<Blank, Normal("xyz")>>
T_ddl_22_1_2 == <<Blank, Normal("ddl"), Normal("22"), Normal("1"), Normal("2")>>
T_ddl_22_1 == <<Blank, Normal("ddl"), Normal("22"), Normal("1")>>
T_ddl_22_blank == <<Blank, Normal("ddl"), Normal("22"), Blank>>
T_ddl_22 == <<Blank, Normal("ddl"), Normal("22")>>

TestPairs ==
    { <<T_iot_b_x, 1>>, <<T_iot_b_x, 2>>, <<T_iot_b_y, 3>>, <<T_iot_cc_dd, 4>>,
      <<T_ddl_22_mw, 5>>, <<T_ddl_sw_sw, 6>>, <<T_ddl_sw_1, 7>>, <<T_ddl_mw, 8>>,
      <<T_xyz_yy_zz, 7>>, <<T_xyz, 8>> }

TestTopics ==
    { T_iot_b_x, T_iot_b_y, T_iot_cc_dd, T_xyz_yy_zz, T_ddl_22_1_2, T_ddl_22_1,
      T_ddl_22_blank, T_ddl_22, T_xyz }

Drivers == {"exhaustive", "tests"}
PairsOf(d) == IF d = "tests" THEN TestPairs ELSE SmallPairs
ProbesOf(d) == IF d = "tests" THEN TestTopics ELSE Topics

(***************************************************************************)
(* Matcher and MatchedIter: the lazy traversal.  An item is the pair       *)
(* <<levels, values>>; curr_items is the sequence of entries of the linked *)
(* map in iteration order; a frame's node is the sub-trie it borrows.      *)
(***************************************************************************)
new(node, path, sub_path) ==
    [node |-> node, path |-> path, sub_path |-> Some(sub_path),
     curr_items |-> <<>>, sub_iters |-> <<>>]

\* add_to_items without its emptiness test
add_to_items_unguarded(self, levels, v_set) ==
    IF \E i \in 1..Len(self.curr_items) : self.curr_items[i][1] = levels
    THEN self
    ELSE [self EXCEPT !.curr_items = Append(@, <<levels, v_set>>)]

\* entry(levels).or_insert(values of v_set in iteration order)
add_to_items(self, levels, v_set) ==
    IF v_set # <<>>
    THEN IF \E i \in 1..Len(self.curr_items) : self.curr_items[i][1] = levels
         THEN self
         ELSE [self EXCEPT !.curr_items = Append(@, <<levels, v_set>>)]
    ELSE self

\* add_multi_wildcard that also builds, ahead of its frame, the item of a
\* SingleWildcard child that the last level of the topic reaches
add_multi_wildcard_eager(self) ==
    LET b_node == child(self.node, MultiWildcard)
        s_node == child(self.node, SingleWildcard)
        s == IF is_some(b_node) /\ unwrap(b_node).values # <<>>
             THEN add_to_items(self, Append(unwrap(self.sub_path), MultiWildcard),
                               unwrap(b_node).values)
             ELSE self
    IN  IF Len(self.path) = 1 /\ is_some(s_node)
        THEN add_to_items(s, Append(unwrap(self.sub_path), SingleWildcard),
                          unwrap(s_node).values)
        ELSE s

\* the "Match parent #" step: the MultiWildcard child's values, keyed sub_path/#
add_multi_wildcard(self) ==
    LET b_node == child(self.node, MultiWildcard)
    IN  IF is_some(b_node) /\ unwrap(b_node).values # <<>>
        THEN add_to_items(self, Append(unwrap(self.sub_path), MultiWildcard),
                          unwrap(b_node).values)
        ELSE self

\* prepare_exhausted without the "Match parent #" step
prepare_exhausted_own_only(self) ==
    add_to_items(self, unwrap(self.sub_path), self.node.values)

\* prepare_exhausted that also takes the SingleWildcard child's values
prepare_exhausted_with_single(self) ==
    LET s == add_to_items(add_multi_wildcard(self), unwrap(self.sub_path), self.node.values)
        b_node == child(self.node, SingleWildcard)
    IN  IF is_some(b_node)
        THEN add_to_items(s, Append(unwrap(self.sub_path), SingleWildcard),
                          unwrap(b_node).values)
        ELSE s

\* the topic is exhausted at this node
prepare_exhausted(self) ==
    add_to_items(add_multi_wildcard(self), unwrap(self.sub_path), self.node.values)

\* skips_wildcards without the test that no level has been consumed
skips_wildcards_everywhere(self) ==
    /\ self.path[1] # Blank
    /\ is_metadata(self.path[1])
    /\ \/ contains_key(self.node.branches, MultiWildcard)
       \/ contains_key(self.node.branches, SingleWildcard)

\* "topic names starting with the $ character cannot be matched with topic
\* filters starting with wildcards": TRUE when the wildcard branches are skipped
skips_wildcards(self) ==
    /\ unwrap(self.sub_path) = <<>>
    /\ self.path[1] # Blank
    /\ is_metadata(self.path[1])
    /\ \/ contains_key(self.node.branches, MultiWildcard)
       \/ contains_key(self.node.branches, SingleWildcard)

\* push_single_wildcard that pushes the frame of the SingleWildcard child twice
push_single_wildcard_twice(self) ==
    LET b_node == child(self.node, SingleWildcard)
        frame == new(unwrap(b_node), Tail(self.path),
                     Append(unwrap(self.sub_path), SingleWildcard))
    IN  IF is_some(b_node)
        THEN [self EXCEPT !.sub_iters = Append(Append(@, frame), frame)]
        ELSE self

\* "Single layer matching": the frame of the SingleWildcard child
push_single_wildcard(self) ==
    LET b_node == child(self.node, SingleWildcard)
    IN  IF is_some(b_node)
        THEN [self EXCEPT !.sub_iters =
                 Append(@, new(unwrap(b_node), Tail(self.path),
                               Append(unwrap(self.sub_path), SingleWildcard)))]
        ELSE self

\* "Precise matching": the frame of the child keyed by the current level
push_precise(self) ==
    LET b_node == child(self.node, self.path[1])
    IN  IF is_some(b_node)
        THEN [self EXCEPT !.sub_iters =
                 Append(@, new(unwrap(b_node), Tail(self.path),
                               Append(unwrap(self.sub_path), self.path[1])))]
        ELSE self

\* prepare_level that pushes the precise frame before the SingleWildcard frame
prepare_level_precise_first(self) ==
    IF ~skips_wildcards(self)
    THEN push_single_wildcard(push_precise(add_multi_wildcard(self)))
    ELSE push_precise(self)

\* the topic has a level left at this node
prepare_level(self) ==
    IF ~skips_wildcards(self)
    THEN push_precise(push_single_wildcard(add_multi_wildcard(self)))
    ELSE push_precise(self)

\* prepare that leaves sub_path in place, so that the frame is prepared again
prepare_keeps_sub_path(self) ==
    IF self.path = <<>> THEN prepare_exhausted(self) ELSE prepare_level(self)

prepare(self) ==
    LET s == IF self.path = <<>> THEN prepare_exhausted(self) ELSE prepare_level(self)
    IN  [s EXCEPT !.sub_path = None]

RECURSIVE next(_)
RECURSIVE next_item(_)

\* next_item with an `if` for the `while`: it gives up after one exhausted
\* child frame
next_item_one_child(self) ==
    IF self.curr_items # <<>>
    THEN [iter |-> [self EXCEPT !.curr_items = Tail(@)], item |-> Some(Head(self.curr_items))]
    ELSE IF self.sub_iters # <<>>
    THEN LET r == next(self.sub_iters[1])
         IN  IF is_some(r.item)
             THEN [iter |-> [self EXCEPT !.sub_iters[1] = r.iter], item |-> r.item]
             ELSE [iter |-> [self EXCEPT !.sub_iters = Tail(@)], item |-> None]
    ELSE [iter |-> self, item |-> None]

next_item(self) ==
    IF self.curr_items # <<>>
    THEN [iter |-> [self EXCEPT !.curr_items = Tail(@)], item |-> Some(Head(self.curr_items))]
    ELSE IF self.sub_iters # <<>>
    THEN LET r == next(self.sub_iters[1])
         IN  IF is_some(r.item)
             THEN [iter |-> [self EXCEPT !.sub_iters[1] = r.iter], item |-> r.item]
             ELSE next_item([self EXCEPT !.sub_iters = Tail(@)])
    ELSE [iter |-> self, item |-> None]

next(self) ==
    LET r == next_item(self)
    IN  IF is_some(r.item) THEN r
        ELSE IF ~is_some(r.iter.sub_path) THEN [iter |-> r.iter, item |-> None]
        ELSE next_item(prepare(r.iter))

matches(self, topic) == [node |-> self, path |-> topic]

iter(m) == new(m.node, m.path, <<>>)

first(m) == next(iter(m)).item

is_match(self, topic) == is_some(first(matches(self, topic)))

\* for item in matches(topic).iter(): the items up to the first None
RECURSIVE Drain(_)
Drain(self) ==
    LET r == next(self)
    IN  IF is_some(r.item) THEN <<unwrap(r.item)>> \o Drain(r.iter) ELSE <<>>

(***************************************************************************)
(* old_matches: the eager matcher, which fills a map from filter to values *)
(***************************************************************************)
\* the closure add_to_out: out.entry(levels).or_default().extend(values)
add_to_out(out, levels, v_set) ==
    IF v_set # <<>>
    THEN MapPut(out, levels,
                (IF contains_key(out, levels) THEN out[levels] ELSE <<>>) \o v_set)
    ELSE out

\* _matches without the rule for topics that start with a metadata level
RECURSIVE _matches_no_metadata_rule(_, _, _, _)
_matches_no_metadata_rule(self, path, sub_path, out) ==
    IF path = <<>>
    THEN LET n == child(self, MultiWildcard)
             o == IF is_some(n) /\ unwrap(n).values # <<>>
                  THEN add_to_out(out, Append(sub_path, MultiWildcard), unwrap(n).values)
                  ELSE out
         IN  add_to_out(o, sub_path, self.values)
    ELSE LET skip == FALSE
             n == child(self, MultiWildcard)
             o1 == IF ~skip /\ is_some(n) /\ unwrap(n).values # <<>>
                   THEN add_to_out(out, Append(sub_path, MultiWildcard), unwrap(n).values)
                   ELSE out
             o2 == IF ~skip /\ contains_key(self.branches, SingleWildcard)
                   THEN _matches_no_metadata_rule(self.branches[SingleWildcard], Tail(path),
                                 Append(sub_path, SingleWildcard), o1)
                   ELSE o1
         IN  IF contains_key(self.branches, path[1])
             THEN _matches_no_metadata_rule(self.branches[path[1]], Tail(path), Append(sub_path, path[1]), o2)
             ELSE o2

RECURSIVE _matches(_, _, _, _)
_matches(self, path, sub_path, out) ==
    IF path = <<>>
    THEN LET n == child(self, MultiWildcard)
             o == IF is_some(n) /\ unwrap(n).values # <<>>
                  THEN add_to_out(out, Append(sub_path, MultiWildcard), unwrap(n).values)
                  ELSE out
         IN  add_to_out(o, sub_path, self.values)
    ELSE LET skip == /\ sub_path = <<>>
                     /\ path[1] # Blank
                     /\ is_metadata(path[1])
                     /\ \/ contains_key(self.branches, MultiWildcard)
                        \/ contains_key(self.branches, SingleWildcard)
             n == child(self, MultiWildcard)
             o1 == IF ~skip /\ is_some(n) /\ unwrap(n).values # <<>>
                   THEN add_to_out(out, Append(sub_path, MultiWildcard), unwrap(n).values)
                   ELSE out
             o2 == IF ~skip /\ contains_key(self.branches, SingleWildcard)
                   THEN _matches(self.branches[SingleWildcard], Tail(path),
                                 Append(sub_path, SingleWildcard), o1)
                   ELSE o1
         IN  IF contains_key(self.branches, path[1])
             THEN _matches(self.branches[path[1]], Tail(path), Append(sub_path, path[1]), o2)
             ELSE o2

old_matches(self, topic) == _matches(self, topic, <<>>, EmptyMap)

(***************************************************************************)
(* Serialize / Deserialize of Node<NodeId>.  An encoded node is the tuple  *)
(* of two the code writes: the sequence of (value, ()) pairs in the        *)
(* iteration order of values, and the sequence of (level, encoded node)    *)
(* pairs in an iteration order of branches, which a HashMap leaves open.   *)
(***************************************************************************)
Unit == <<>>

Ok(x) == [ok |-> TRUE, node |-> x]
Err == [ok |-> FALSE, node |-> Default]

RECURSIVE serialize(_)
RECURSIVE serialize_branches(_, _)

\* the encodings of the branches under the keys not yet written
serialize_branches(self, keys) ==
    IF keys = {} THEN {<<>>}
    ELSE UNION {{<<<<k, e>>>> \o rest : e \in serialize(self.branches[k]),
                                       rest \in serialize_branches(self, keys \ {k})}
                : k \in keys}

\* the encodings serialize() can write, one per iteration order of the maps
serialize(self) ==
    {<<[i \in 1..Len(self.values) |-> <<self.values[i], Unit>>], b>> :
        b \in serialize_branches(self, DOMAIN self.branches)}

\* Extend for LinkedHashMap: the pairs inserted one after the other
RECURSIVE extend(_, _)
extend(map, pairs) ==
    IF pairs = <<>> THEN map
    ELSE extend(LinkedInsert(map, Head(pairs)[1]).map, Tail(pairs))

\* HashSet::from_iter
from_iter(pairs) == extend(<<>>, pairs)

RECURSIVE deserialize(_)
RECURSIVE collect_branches(_, _)

\* the HashMap<Level, Node> read from a sequence of pairs, each node read by
\* deserialize; it fails with the first node that fails
collect_branches(map, pairs) ==
    IF pairs = <<>> THEN Ok(map)
    ELSE LET n == deserialize(Head(pairs)[2])
         IN  IF n.ok
             THEN collect_branches(MapPut(map, Head(pairs)[1], n.node), Tail(pairs))
             ELSE Err

\* visit_seq that reads the values and leaves the branches empty
visit_seq_values_only(seq) ==
    IF Len(seq) # 2 THEN Err
    ELSE Ok([values |-> from_iter(seq[1]), branches |-> EmptyMap])

visit_seq(seq) ==
    IF Len(seq) # 2 THEN Err
    ELSE LET b == collect_branches(EmptyMap, seq[2])
         IN  IF b.ok THEN Ok([values |-> from_iter(seq[1]), branches |-> b.node])
             ELSE Err

deserialize(e) == visit_seq(e)

\* the (filter, value) pairs a tree holds, read through children() and values()
RECURSIVE Registered(_, _)
Registered(self, prefix) ==
    {<<prefix, v>> : v \in Range(values(self))}
    \cup UNION {Registered(children(self)[l], Append(prefix, l)) : l \in DOMAIN children(self)}

\* the paths of the nodes of a tree, the root's included
RECURSIVE NodePaths(_, _)
NodePaths(self, prefix) ==
    {prefix}
    \cup UNION {NodePaths(children(self)[l], Append(prefix, l)) : l \in DOMAIN children(self)}

(***************************************************************************)
(* The state: the tree, the last call and its result, and one traversal    *)
(* (it borrows the tree, so the tree does not change while it is alive).   *)
(* subs is the history of registrations: the pairs inserted and not since  *)
(* removed.                                                                *)
(***************************************************************************)
\* calls of next() made after one has returned None
MaxPullsAfterNone == 1

VARIABLES driver, topics, subs, op, ret, fst, topic, it, yielded, done, pulls

vars == <<driver, topics, subs, op, ret, fst, topic, it, yielded, done, pulls>>

NoTraversal ==
    /\ topic = <<>>
    /\ it = None
    /\ yielded = <<>>
    /\ done = FALSE
    /\ pulls = 0

Init ==
    /\ driver \in Drivers
    /\ topics = Default
    /\ subs = {}
    /\ op = "new"
    /\ ret = FALSE
    /\ fst = None
    /\ NoTraversal

\* topics.insert(&filter, value)
Insert ==
    /\ it = None
    /\ \E p \in PairsOf(driver) :
        LET r == insert(topics, p[1], p[2])
        IN  /\ values_size(r.node) <= MaxSize \/ driver = "tests"
            /\ topics' = r.node
            /\ subs' = subs \cup {p}
            /\ op' = "insert"
            /\ ret' = r.res
    /\ UNCHANGED <<driver, fst, topic, it, yielded, done, pulls>>

\* topics.remove(&filter, &value)
Remove ==
    /\ it = None
    /\ \E p \in PairsOf(driver) :
        LET r == remove(topics, p[1], p[2])
        IN  /\ topics' = r.node
            /\ subs' = subs \ {p}
            /\ op' = "remove"
            /\ ret' = r.res
    /\ UNCHANGED <<driver, fst, topic, it, yielded, done, pulls>>

\* topics.matches(&t).iter()
Matches ==
    /\ it = None
    /\ \E t \in ProbesOf(driver) :
        /\ topic' = t
        /\ it' = Some(iter(matches(topics, t)))
    /\ op' = "matches"
    /\ ret' = FALSE
    /\ fst' = None
    /\ yielded' = <<>>
    /\ done' = FALSE
    /\ pulls' = 0
    /\ UNCHANGED <<driver, topics, subs>>

\* one call of next() on the live traversal
IterNext ==
    /\ it # None
    /\ pulls < MaxPullsAfterNone
    /\ LET r == next(unwrap(it))
       IN  /\ it' = Some(r.iter)
           /\ yielded' = IF is_some(r.item) THEN Append(yielded, unwrap(r.item)) ELSE yielded
           /\ done' = (done \/ ~is_some(r.item))
           /\ pulls' = IF done THEN pulls + 1 ELSE pulls
    /\ UNCHANGED <<driver, topics, subs, op, ret, fst, topic>>

\* topics.is_match(&t) on the topic of a traversal that has returned None, as
\* tests::topic calls it (a second shared borrow of the tree); fst is what the
\* first() it calls returned
IsMatch ==
    /\ it # None
    /\ done
    /\ op = "matches"
    /\ op' = "is_match"
    /\ ret' = is_match(topics, topic)
    /\ fst' = first(matches(topics, topic))
    /\ UNCHANGED <<driver, topics, subs, topic, it, yielded, done, pulls>>

\* topics = deserialize(serialize(&topics)), as tests::topic does; ret tells
\* whether deserialize returned Ok
Roundtrip ==
    /\ it = None
    /\ \E r \in {deserialize(e) : e \in serialize(topics)} :
        /\ topics' = IF r.ok THEN r.node ELSE topics
        /\ ret' = r.ok
    /\ op' = "serde"
    /\ UNCHANGED <<driver, subs, fst, topic, it, yielded, done, pulls>>

\* the traversal is dropped (the caller stops pulling); the borrow ends
Drop ==
    /\ it # None
    /\ it' = None
    /\ topic' = <<>>
    /\ yielded' = <<>>
    /\ done' = FALSE
    /\ pulls' = 0
    /\ op' = "drop"
    /\ ret' = FALSE
    /\ fst' = None
    /\ UNCHANGED <<driver, topics, subs>>

Next == Insert \/ Remove \/ Matches \/ IterNext \/ IsMatch \/ Drop

Spec == Init /\ [][Next]_vars

\* the trees the inserts and removes build, each put through the round trip
NextSerde == Insert \/ Remove \/ Roundtrip

SpecSerde == Init /\ [][NextSerde]_vars

(***************************************************************************)
(* What the properties read: the registrations, the reference matching     *)
(* rules, and what the traversal has yielded.                              *)
(***************************************************************************)
StoredFilters == {p[1] : p \in subs}
ValuesUnder(f) == {p[2] : p \in {q \in subs : q[1] = f}}

YieldedPaths == {yielded[i][1] : i \in 1..Len(yielded)}

IsWildcard(l) == l = SingleWildcard \/ l = MultiWildcard

\* level by level: a literal matches the identical level, SingleWildcard one
\* level, MultiWildcard its position and whatever remains, nothing included
RECURSIVE LevelsMatch(_, _)
LevelsMatch(f, t) ==
    IF f = <<>> THEN t = <<>>
    ELSE IF Head(f) = MultiWildcard THEN TRUE
    ELSE IF t = <<>> THEN FALSE
    ELSE IF Head(f) = SingleWildcard THEN LevelsMatch(Tail(f), Tail(t))
    ELSE Head(f) = Head(t) /\ LevelsMatch(Tail(f), Tail(t))

\* a topic whose first level is metadata
IsSystemTopic(t) == t # <<>> /\ is_metadata(t[1]) /\ t[1] # Blank

\* the reference rules: root-level wildcards are skipped for a system topic
RefMatch(f, t) ==
    /\ LevelsMatch(f, t)
    /\ ~(IsSystemTopic(t) /\ f # <<>> /\ IsWildcard(f[1]))

IsPrefix(p, t) == Len(p) <= Len(t) /\ SubSeq(t, 1, Len(p)) = p

NoRepeat(s) == \A i, j \in 1..Len(s) : s[i] = s[j] => i = j

\* C1: once the traversal of a topic has returned None, the filter paths it
\* yielded are exactly the registered filters that match the topic under the
\* reference rules: none is missed, none is yielded that does not match
C1_MatchesExactlyReference ==
    done => YieldedPaths = {f \in StoredFilters : RefMatch(f, topic)}

C1_Witness ==
    /\ done
    /\ driver = "tests"
    /\ topic = T_ddl_22_1
    /\ Len(yielded) = 4
    /\ Cardinality(StoredFilters) = 9

\* the seven registrations of the scenario, all among those of tests::topic
ScenarioPairs ==
    { <<T_iot_b_x, 1>>, <<T_iot_b_x, 2>>, <<T_iot_b_y, 3>>, <<T_ddl_mw, 8>>,
      <<T_ddl_sw_sw, 6>>, <<T_ddl_sw_1, 7>>, <<T_ddl_22_mw, 5>> }

YieldedValues == UNION {Range(yielded[i][2]) : i \in 1..Len(yielded)}

\* C2: every yielded item has the path of a registered filter and, as values,
\* exactly the values registered under that filter, at least one and each
\* once; so a finished traversal has yielded, in all, the values of the
\* matching filters, and the scenario of the tests yields {5,6,7,8}, {1,2}
\* and {5,8}
C2_ItemsAreStoredFilters ==
    /\ \A i \in 1..Len(yielded) :
        /\ yielded[i][1] \in StoredFilters
        /\ yielded[i][2] # <<>>
        /\ NoRepeat(yielded[i][2])
        /\ Range(yielded[i][2]) = ValuesUnder(yielded[i][1])
    /\ done =>
        YieldedValues = UNION {ValuesUnder(f) : f \in {g \in StoredFilters : RefMatch(g, topic)}}
    /\ (done /\ subs = ScenarioPairs) =>
        /\ topic = T_ddl_22_1 => YieldedValues = {5, 6, 7, 8}
        /\ topic = T_iot_b_x => YieldedValues = {1, 2}
        /\ topic = T_ddl_22 => YieldedValues = {5, 8}

C2_Witness ==
    /\ done
    /\ subs = ScenarioPairs
    /\ topic = T_ddl_22_1
    /\ YieldedValues = {5, 6, 7, 8}

\* the filters p/# and p/+ of a level sequence p without wildcards
WildcardFree(p) == \A i \in 1..Len(p) : ~IsWildcard(p[i])
Last(f) == f[Len(f)]
Front(f) == SubSeq(f, 1, Len(f) - 1)
MultiFilters == {f \in StoredFilters : f # <<>> /\ Last(f) = MultiWildcard /\ WildcardFree(Front(f))}
SingleFilters == {f \in StoredFilters : f # <<>> /\ Last(f) = SingleWildcard /\ WildcardFree(Front(f))}

\* the items of a node where the topic is exhausted are the node's own
\* values and its MultiWildcard child's: every yielded path is as long as
\* the topic, or ends in the MultiWildcard taken at or before that node
ExhaustedItemsOnly ==
    \A i \in 1..Len(yielded) :
        LET y == yielded[i][1]
        IN  \/ Len(y) = Len(topic) /\ (y = <<>> \/ Last(y) # MultiWildcard)
            \/ y # <<>> /\ Last(y) = MultiWildcard /\ Len(y) <= Len(topic) + 1

\* p/+ is not satisfied by the topic p, and is by p followed by a blank level
SingleNeedsOneLevel ==
    done => \A f \in SingleFilters :
                /\ topic = Front(f) => f \notin YieldedPaths
                /\ topic = Append(Front(f), Blank) => f \in YieldedPaths

\* C3, as stated: at exhaustion only the node's own values and its
\* MultiWildcard child's are produced; p/# matches the topic p and every
\* extension of p; p/+ never matches the topic p and matches p followed by one
\* blank level
C3_AsStated ==
    /\ ExhaustedItemsOnly
    /\ done => \A f \in MultiFilters : IsPrefix(Front(f), topic) => f \in YieldedPaths
    /\ SingleNeedsOneLevel

\* C3, as amended: the same, except that the filter "#" alone (p empty) does
\* not match a topic whose first level is metadata
C3_ExhaustedTopic ==
    /\ ExhaustedItemsOnly
    /\ done => \A f \in MultiFilters :
                  (IsPrefix(Front(f), topic) /\ ~(Front(f) = <<>> /\ IsSystemTopic(topic)))
                      => f \in YieldedPaths
    /\ done => \A f \in MultiFilters :
                  (Front(f) = <<>> /\ IsSystemTopic(topic)) => f \notin YieldedPaths
    /\ SingleNeedsOneLevel

C3_Witness ==
    /\ done
    /\ topic = <<NormalA>>
    /\ StoredFilters = {<<NormalA, MultiWildcard>>, <<NormalA, SingleWildcard>>}
    /\ YieldedPaths = {<<NormalA, MultiWildcard>>}

\* C4: for a topic whose first level is metadata no yielded filter starts with
\* a wildcard; every registered filter that spells that first level and
\* matches level by level is yielded; and, the exclusion being the root's
\* only, every registered filter whose first level is a literal and that
\* matches level by level is yielded, whatever the deeper topic levels are
C4_MetadataExclusion ==
    /\ IsSystemTopic(topic) =>
        \A y \in YieldedPaths : y # <<>> => ~IsWildcard(y[1])
    /\ (done /\ IsSystemTopic(topic)) =>
        \A f \in StoredFilters :
            (f # <<>> /\ f[1] = topic[1] /\ LevelsMatch(f, topic)) => f \in YieldedPaths
    /\ done =>
        \A f \in StoredFilters :
            (f # <<>> /\ ~IsWildcard(f[1]) /\ LevelsMatch(f, topic)) => f \in YieldedPaths

C4_Witness ==
    /\ done
    /\ topic = <<Sys, Sys>>
    /\ StoredFilters = {<<MultiWildcard>>, <<Sys, SingleWildcard>>}
    /\ YieldedPaths = {<<Sys, SingleWildcard>>}

\* C5: insert returns true exactly when the pair was not registered before
\* the call, and after the call the tree holds exactly the pairs registered
\* so far, the inserted one among them (two values under one filter both stay)
C5_InsertReportsNew ==
    [][op' = "insert" =>
        /\ ret' <=> (subs' # subs)
        /\ Registered(topics', <<>>) = subs']_vars

C5_Witness ==
    /\ op = "insert"
    /\ ret = FALSE
    /\ \E f \in StoredFilters : Cardinality(ValuesUnder(f)) = 2

\* C6: remove returns true exactly when the pair was registered; when it
\* returns false the tree is unchanged
C6_RemoveReportsPresent ==
    [][op' = "remove" =>
        /\ ret' <=> (subs' # subs)
        /\ ~ret' => topics' = topics]_vars

C6_Witness ==
    /\ op = "remove"
    /\ ret = FALSE
    /\ Cardinality(StoredFilters) = 2

Prefixes(f) == {SubSeq(f, 1, k) : k \in 0..Len(f)}

\* no child, at any depth, has neither a value nor a child of its own
RECURSIVE NoEmptyChild(_)
NoEmptyChild(self) ==
    \A l \in DOMAIN self.branches :
        /\ ~(self.branches[l].values = <<>> /\ DOMAIN self.branches[l].branches = {})
        /\ NoEmptyChild(self.branches[l])

\* C7: no node but the root is empty (no value and no child): the nodes of
\* the tree are exactly the root and the prefixes of the registered filters
C7_Pruned ==
    /\ NoEmptyChild(topics)
    /\ NodePaths(topics, <<>>) = {<<>>} \cup UNION {Prefixes(f) : f \in StoredFilters}

C7_Witness ==
    /\ driver = "tests"
    /\ op = "remove"
    /\ ret = TRUE
    /\ subs = {<<T_xyz, 8>>}
    /\ nodes_size(topics) = 2

\* what a topic matches in a tree: the filters, each with its set of values
MatchSet(tree, t) ==
    LET items == Drain(iter(matches(tree, t)))
    IN  {<<items[i][1], Range(items[i][2])>> : i \in 1..Len(items)}

\* C8: an insert that reports the pair as already present leaves the nodes,
\* the registered pairs, values_size(), nodes_size() and, for every topic,
\* the matched filters with their value sets as they were
C8_ReinsertIdempotent ==
    [][(op' = "insert" /\ ~ret') =>
        /\ NodePaths(topics', <<>>) = NodePaths(topics, <<>>)
        /\ Registered(topics', <<>>) = Registered(topics, <<>>)
        /\ values_size(topics') = values_size(topics)
        /\ nodes_size(topics') = nodes_size(topics)
        /\ \A t \in ProbesOf(driver) : MatchSet(topics', t) = MatchSet(topics, t)]_vars

C8_Witness ==
    /\ op = "insert"
    /\ ret = FALSE
    /\ values_size(topics) = 2
    /\ nodes_size(topics) = 2

\* where an item of path y comes from in the frame whose path is the first d
\* levels of y: 0 the frame's node itself (its values or its MultiWildcard
\* child's), 1 the SingleWildcard child frame, 2 the precise child frame
FrameRank(y, d) ==
    IF Len(y) = d THEN 0
    ELSE IF Len(y) = d + 1 /\ y[d + 1] = MultiWildcard THEN 0
    ELSE IF y[d + 1] = SingleWildcard THEN 1
    ELSE 2

\* C9: of two items of one frame (their paths share the frame's path), one
\* directly available at the frame's node (the path itself, or the path and
\* a MultiWildcard) comes before one of a child frame, and one of the
\* SingleWildcard child frame before one of the precise child frame
C9_TraversalOrder ==
    \A i, j \in 1..Len(yielded) :
        i < j =>
            LET a == yielded[i][1]
                b == yielded[j][1]
            IN  \A d \in 0..Len(topic) :
                    (d <= Len(a) /\ d <= Len(b) /\ SubSeq(a, 1, d) = SubSeq(b, 1, d))
                        => FrameRank(a, d) <= FrameRank(b, d)

C9_Witness ==
    /\ done
    /\ topic = T_ddl_22_1
    /\ [i \in 1..Len(yielded) |-> yielded[i][1]]
           = <<T_ddl_mw, T_ddl_sw_sw, T_ddl_sw_1, T_ddl_22_mw>>

\* C10: is_match is true exactly when the traversal of the same topic yields
\* an item, in any of its calls of next(), and first() returns the item the
\* first call of next() returned, None when there is none
C10_IsMatchIsFirst ==
    op = "is_match" =>
        /\ ret <=> (yielded # <<>>)
        /\ fst = IF yielded = <<>> THEN None ELSE Some(yielded[1])

C10_Witness ==
    /\ op = "is_match"
    /\ ret = TRUE
    /\ pulls = MaxPullsAfterNone
    /\ Len(yielded) >= 2
    /\ fst = Some(yielded[1])

(***************************************************************************)
(* What the traversal holds: the items built and not yet returned, and the *)
(* frames prepared.                                                        *)
(***************************************************************************)
RECURSIVE SumSeq(_)
SumSeq(q) == IF q = <<>> THEN 0 ELSE Head(q) + SumSeq(Tail(q))

\* the items in the ready queues of a frame and of the frames below it
RECURSIVE QueuedItems(_)
QueuedItems(frame) ==
    Len(frame.curr_items)
    + SumSeq([i \in 1..Len(frame.sub_iters) |-> QueuedItems(frame.sub_iters[i])])

\* a frame as new() made it: not prepared
Fresh(frame) ==
    /\ is_some(frame.sub_path)
    /\ frame.curr_items = <<>>
    /\ frame.sub_iters = <<>>

\* the frame that yielded an item is k frames below this one, along the first
\* child frames (the exhausted ones before them are dropped); every frame
\* that comes after it, its own children and the later children of the
\* frames above it, is as new() made it
RECURSIVE LaterFramesFresh(_, _)
LaterFramesFresh(frame, k) ==
    IF k = 0
    THEN \A i \in 1..Len(frame.sub_iters) : Fresh(frame.sub_iters[i])
    ELSE /\ frame.sub_iters # <<>>
         /\ \A i \in 2..Len(frame.sub_iters) : Fresh(frame.sub_iters[i])
         /\ LaterFramesFresh(frame.sub_iters[1], k - 1)

\* the frame k frames below this one along the first child frames
RECURSIVE FrameBelow(_, _)
FrameBelow(frame, k) == IF k = 0 THEN frame ELSE FrameBelow(frame.sub_iters[1], k - 1)

\* the depth of the frame that yielded the path y
YieldingDepth(y) ==
    IF y # <<>> /\ y[Len(y)] = MultiWildcard THEN Len(y) - 1 ELSE Len(y)

\* exactly one call of next() has been made, which is what first() makes
FirstReturned == it # None /\ ~done /\ Len(yielded) = 1

\* C11, as stated: when first() returns its item, no other item is in any
\* frame's ready queue and no frame after the yielding one is prepared
C11_AsStated ==
    FirstReturned =>
        /\ QueuedItems(unwrap(it)) = 0
        /\ LaterFramesFresh(unwrap(it), YieldingDepth(yielded[1][1]))

\* C11, as amended: when first() returns its item, at most one other item is
\* built: the own values of the node at which the topic is exhausted, in the
\* ready queue of the yielding frame, the returned item being that node's
\* MultiWildcard child's; no frame after the yielding one is prepared, and
\* when first() returns None nothing is built
C11_FirstBuildsOneFrame ==
    /\ FirstReturned =>
        LET y == yielded[1][1]
            root == unwrap(it)
            frame == FrameBelow(root, YieldingDepth(y))
        IN  /\ LaterFramesFresh(root, YieldingDepth(y))
            /\ QueuedItems(root) = Len(frame.curr_items)
            /\ Len(frame.curr_items) <= 1
            /\ Len(frame.curr_items) = 1 =>
                /\ frame.path = <<>>
                /\ y = Append(frame.curr_items[1][1], MultiWildcard)
                /\ Len(y) = Len(topic) + 1
    /\ (it # None /\ done /\ yielded = <<>>) => QueuedItems(unwrap(it)) = 0

C11_Witness ==
    /\ FirstReturned
    /\ driver = "tests"
    /\ topic = T_ddl_22_1
    /\ Cardinality(subs) = 10
    /\ yielded[1][1] = T_ddl_mw
    /\ Len(unwrap(it).sub_iters[1].sub_iters[1].sub_iters) = 2

IsSuffix(s, t) ==
    /\ Len(s) <= Len(t)
    /\ \A i \in 1..Len(s) : s[i] = t[i + Len(t) - Len(s)]

\* the frame and the frames below it that still have their sub_path are as
\* new() made them: sub_path tells the prepared frames from the others
RECURSIVE FramesMarked(_)
FramesMarked(frame) ==
    /\ is_some(frame.sub_path) => Fresh(frame)
    /\ \A i \in 1..Len(frame.sub_iters) : FramesMarked(frame.sub_iters[i])

\* frame g is what a call of next() made of frame f without preparing a
\* prepared frame again: a prepared frame stays prepared, its ready queue and
\* its child list lose elements from the front and gain none, and the same
\* holds of the child frame now first
RECURSIVE PreparedOnce(_, _)
PreparedOnce(f, g) ==
    IF is_some(f.sub_path) THEN TRUE
    ELSE /\ g.sub_path = None
         /\ IsSuffix(g.curr_items, f.curr_items)
         /\ \E k \in 0..Len(f.sub_iters) :
              /\ Len(g.sub_iters) = Len(f.sub_iters) - k
              /\ \A i \in 2..Len(g.sub_iters) : g.sub_iters[i] = f.sub_iters[i + k]
              /\ g.sub_iters # <<>> => PreparedOnce(f.sub_iters[k + 1], g.sub_iters[1])

\* the frame next() leaves when it returns None
Exhausted(frame) ==
    /\ frame.sub_path = None
    /\ frame.curr_items = <<>>
    /\ frame.sub_iters = <<>>

\* C12: a traversal yields at most as many items as there are registered
\* filters, so next() returns None after finitely many calls; when it has,
\* the root frame has an empty ready queue and an empty child list; no call
\* prepares a prepared frame again; and every call after the first None
\* returns None and leaves the traversal as it was
C12_Terminates ==
    [][(it # None /\ it' # None) =>
          /\ Len(yielded') <= Cardinality(StoredFilters)
          /\ FramesMarked(unwrap(it'))
          /\ PreparedOnce(unwrap(it), unwrap(it'))
          /\ done' => Exhausted(unwrap(it'))
          /\ done => (done' /\ it' = it /\ yielded' = yielded)]_vars

C12_Witness ==
    /\ done
    /\ pulls = MaxPullsAfterNone
    /\ driver = "tests"
    /\ topic = T_ddl_22_1
    /\ Len(yielded) = 4

\* C13: deserialize(serialize(trie)) returns Ok for every reachable trie and
\* every iteration order of its maps, and the trie it returns reports, for
\* every probe topic, the same matched filters with the same value sets
C13_RoundTrip ==
    [][op' = "serde" =>
          /\ ret'
          /\ \A t \in ProbesOf(driver) : MatchSet(topics', t) = MatchSet(topics, t)]_vars

C13_Witness ==
    /\ op = "serde"
    /\ ret
    /\ driver = "tests"
    /\ Cardinality(subs) = 10
    /\ MatchSet(topics, T_ddl_22_1) # {}

\* C14: values_size() is the number of distinct registered pairs, after every
\* operation; an insert that returns true raises it by one, a remove that
\* returns true lowers it by one, and no other call changes it, so that it
\* is the inserts that returned true less the removes that returned true
C14_ValuesSizeCounts ==
    [][/\ values_size(topics') = Cardinality(Registered(topics', <<>>))
       /\ values_size(topics') = Cardinality(subs')
       /\ values_size(topics') - values_size(topics) =
            IF op' = "insert" /\ ret' THEN 1
            ELSE IF op' = "remove" /\ ret' THEN 0 - 1
            ELSE 0]_vars

C14_Witness ==
    /\ op = "remove"
    /\ ret
    /\ values_size(topics) = 2
    /\ \E f \in StoredFilters : Cardinality(ValuesUnder(f)) = 2
    /\ Cardinality(DOMAIN topics.branches) = 1

\* C15, as stated: nodes_size() is the number of nodes of the tree it is
\* called on, the root included, so that the empty tree reports 1
C15_AsStated ==
    nodes_size(topics) = Cardinality(NodePaths(topics, <<>>))

\* C16: after an insert that registered a pair not registered before, the
\* remove of that pair returns true and gives back the tree as it was before
\* the insert: the same nodes, none of those the insert made left, and the
\* same values in the same order at each
C16_InsertRemoveRoundTrip ==
    [][(op' = "insert" /\ ret') =>
          /\ subs' # subs
          /\ \A p \in subs' \ subs :
                LET r == remove(topics', p[1], p[2])
                IN  /\ r.res
                    /\ r.node = topics
                    /\ NodePaths(r.node, <<>>) = NodePaths(topics, <<>>)
                    /\ Registered(r.node, <<>>) = subs]_vars

C16_Witness ==
    /\ op = "remove"
    /\ ret
    /\ driver = "tests"
    /\ StoredFilters = {T_iot_b_x}
    /\ Cardinality(NodePaths(topics, <<>>)) = 5

\* the values at the node of a filter, in iteration order; none if no node
RECURSIVE ValuesAt(_, _)
ValuesAt(self, f) ==
    IF f = <<>> THEN values(self)
    ELSE IF is_some(child(self, f[1])) THEN ValuesAt(unwrap(child(self, f[1])), Tail(f))
    ELSE <<>>

\* C17, as stated: a yielded item lists the values of its filter as the node
\* holds them, and the node holds them in the order in which they were first
\* registered: an insert of a registered pair leaves every sequence as it
\* was, an insert of a new pair puts the value at the end of its filter's
\* sequence, and a remove leaves the other values in their order
C17_AsStated ==
    [][/\ \A i \in 1..Len(yielded') :
             yielded'[i][2] = ValuesAt(topics', yielded'[i][1])
       /\ op' = "insert" =>
             \A f \in {p[1] : p \in subs'} :
                IF ret'
                THEN \/ ValuesAt(topics', f) = ValuesAt(topics, f)
                     \/ /\ <<f, Last(ValuesAt(topics', f))>> \in subs' \ subs
                        /\ Front(ValuesAt(topics', f)) = ValuesAt(topics, f)
                ELSE ValuesAt(topics', f) = ValuesAt(topics, f)
       /\ op' = "remove" =>
             \A f \in {p[1] : p \in subs'} :
                ValuesAt(topics', f) =
                    SelectSeq(ValuesAt(topics, f), LAMBDA v : <<f, v>> \in subs')]_vars

\* the pairs in one of two sets and not in the other
SymDiff(A, B) == (A \ B) \cup (B \ A)

\* the nodes of the tree before the step that the tree after it has not
DeletedNodes == NodePaths(topics, <<>>) \ NodePaths(topics', <<>>)

\* C18: an insert or a remove changes the registration of at most one pair,
\* the pair of the call (the one by which the pairs inserted and not removed
\* change); every other pair is registered after the call exactly if it was
\* before.  An insert deletes no node.  A node a remove deletes holds, before
\* the call, no value but the one removed, and each of its children is
\* deleted with it: no node that still holds a value or has a child goes
C18_Frame ==
    [][(op' = "insert" \/ op' = "remove") =>
          /\ SymDiff(Registered(topics, <<>>), Registered(topics', <<>>)) = SymDiff(subs, subs')
          /\ Cardinality(SymDiff(subs, subs')) <= 1
          /\ op' = "insert" => DeletedNodes = {}
          /\ \A n \in DeletedNodes :
                /\ {<<n, v>> : v \in Range(ValuesAt(topics, n))} \subseteq subs \ subs'
                /\ \A m \in NodePaths(topics, <<>>) : IsPrefix(n, m) => m \in DeletedNodes]_vars

C18_Witness ==
    /\ op = "remove"
    /\ ret
    /\ driver = "tests"
    /\ Cardinality(subs) = 9
    /\ T_ddl_sw_1 \notin StoredFilters
    /\ T_ddl_sw_sw \in StoredFilters
    /\ Cardinality(NodePaths(topics, <<>>)) = 17

\* C19: once the lazy traversal of a wildcard-free topic has returned None,
\* the filters it yielded are the keys of the map old_matches() returns for
\* the same tree and topic, and each item carries the values the map has
\* under its filter, in the same order
C19_EagerAgrees ==
    (done /\ WildcardFree(topic)) =>
        LET out == old_matches(topics, topic)
        IN  /\ DOMAIN out = YieldedPaths
            /\ \A i \in 1..Len(yielded) : out[yielded[i][1]] = yielded[i][2]

C19_Witness ==
    /\ done
    /\ driver = "exhaustive"
    /\ topic = <<Sys>>
    /\ YieldedPaths = {<<Sys>>, <<Sys, MultiWildcard>>}
    /\ DOMAIN old_matches(topics, topic) = YieldedPaths

\* C20: at every point of the traversal of a wildcard-free topic, the calls
\* after the first None included, no filter path has been yielded twice
C20_NoFilterTwice ==
    WildcardFree(topic) =>
        \A i, j \in 1..Len(yielded) : yielded[i][1] = yielded[j][1] => i = j

C20_Witness ==
    /\ done
    /\ driver = "tests"
    /\ topic = T_ddl_22
    /\ Len(yielded) = 2
    /\ \E i \in 1..Len(yielded) : yielded[i][1] = T_ddl_22_mw

====
